---- MODULE Spec2Model ----
(***************************************************************************)
(* EduSummarizeAI: the progress store (src/src/db/database.py) and the     *)
(* learning-session controller (src/src/core/interactive_learning.py),     *)
(* with the text generator (src/src/core/summarizer.py) as an environment  *)
(* whose replies are chosen nondeterministically.                          *)
(*                                                                         *)
(* Tables are sequences of rows; a row's primary key is its index (SQLite  *)
(* autoincrement starting at 1, no row is ever deleted).  A Summary row is *)
(* never looked up by its own id and its text is never compared, so the    *)
(* summaries table is the bag of its rows' chapter_id values; likewise the *)
(* worksheets table.  result is the value the last call returned.          *)
(*                                                                         *)
(* segmenter is a PDFExtractor object (src/src/core/pdf_extractor.py) with *)
(* the pages of its PDF file; a text is the sequence of its pieces.        *)
(*                                                                         *)
(* A call of the application or of InteractiveLearning is a sequence of    *)
(* store operations: every DatabaseManager method opens, commits and       *)
(* closes a session of its own, and a browser session of the Streamlit     *)
(* application runs in a thread of its own on the one database file.  A    *)
(* step of the model is one store operation of one caller (for             *)
(* update_user_progress and mark_concept_understood, which load a row in   *)
(* a session that has opened no transaction and then commit: one step for  *)
(* the SELECT and one for the commit).  sessions holds, for each caller,   *)
(* the position and the local variables of the call it has under way.      *)
(***************************************************************************)
EXTENDS Integers, Sequences, FiniteSets, Bags, TLC

VARIABLES books, chapters, summaries, concepts, progress, worksheets, last, result,
          segmenter, sessions

vars == <<books, chapters, summaries, concepts, progress, worksheets, last, result,
          segmenter, sessions>>
store == <<books, chapters, summaries, concepts, progress, worksheets>>

----------------------------------------------------------------------------
(* Bounds of the model *)

MaxChapters == 2
MaxBooks == 2

(* rows in the store when the data layer is called directly (for          *)
(* update_user_progress: rows and ids in the completed lists)              *)
MaxRows == 4

(* pages of a PDF file, pieces of text in the whole file; detect_chapters  *)
(* calls on one PDFExtractor, and calls of a caller where two callers      *)
(* overlap                                                                 *)
MaxPages == 2
MaxDocTokens == 3
MaxCalls == 2

(* calls of the one caller that calls update_user_progress directly *)
MaxDirect == 5

(* calls of the one caller whose progress records are edited outside the   *)
(* program                                                                 *)
MaxEdited == 4

(* Python's None for an integer argument or a nullable integer column *)
None == 0

(* the calls a caller may still make, where they are not counted *)
Unlimited == -1

----------------------------------------------------------------------------
(* Sequence helpers *)

Range(s) == {s[i] : i \in 1..Len(s)}

RECURSIVE Count(_, _)
Count(x, s) == IF s = <<>> THEN 0
               ELSE (IF Head(s) = x THEN 1 ELSE 0) + Count(x, Tail(s))

(* ids of the rows of table t that satisfy P, in id order *)
RowsWhere(t, P(_)) == {i \in 1..Len(t) : P(t[i])}

Min(S) == CHOOSE x \in S : \A y \in S : x <= y

----------------------------------------------------------------------------
(* The completed_chapters column: JSON text.  A text written by json.dumps *)
(* of a list of ids is kind "list"; any other stored text does not parse:  *)
(* kind "garbage" is a non-empty unparseable string, kind "empty" is "".   *)

json_dumps(list) == [kind |-> "list", items |-> list]

GarbageText == [kind |-> "garbage", items |-> <<>>]
EmptyText == [kind |-> "empty", items |-> <<>>]

(* json.loads: the parsed list, or JSONDecodeError *)
json_loads(text) == IF text.kind = "list"
                    THEN [raised |-> FALSE, value |-> text.items]
                    ELSE [raised |-> TRUE, value |-> <<>>]

(* truth value of a Python str: false only for the empty string *)
Truthy(text) == text.kind # "empty"

----------------------------------------------------------------------------
(* Queries of DatabaseManager (each opens and closes its own session) *)

get_chapter(chapter_id) == IF chapter_id \in 1..Len(chapters) THEN chapter_id ELSE None

RECURSIVE ByNumber(_)
(* database.py 285, order_by(Chapter.chapter_number): the ids in the order *)
(* of their rows' chapter_number, rows of one number in the order of their *)
(* ids (the order in which SQLite scans the table)                         *)
ByNumber(ids) ==
    IF ids = {} THEN <<>>
    ELSE LET first == CHOOSE c \in ids : \A d \in ids :
                          \/ chapters[c].chapter_number < chapters[d].chapter_number
                          \/ /\ chapters[c].chapter_number = chapters[d].chapter_number
                             /\ c <= d
         IN <<first>> \o ByNumber(ids \ {first})

get_chapters_by_book(book_id) ==
    ByNumber(RowsWhere(chapters, LAMBDA r : r.book_id = book_id))

(* a lookup that also reports "no summary" while the chapter has no concept *)
get_summary_unless_empty(chapter_id) ==
    IF CopiesIn(chapter_id, summaries) = 0
       \/ {i \in 1..Len(concepts) : concepts[i].chapter_id = chapter_id} = {}
    THEN None ELSE chapter_id

(* .first() of the rows with this chapter_id: None when there is none *)
get_summary(chapter_id) ==
    IF CopiesIn(chapter_id, summaries) = 0 THEN None ELSE chapter_id

(* a query that lost its chapter filter *)
get_concepts_unfiltered(chapter_id) == 1..Len(concepts)

get_concepts_by_chapter(chapter_id) == RowsWhere(concepts, LAMBDA r : r.chapter_id = chapter_id)

ProgressOf(book_id) == RowsWhere(progress, LAMBDA r : r.book_id = book_id)

get_user_progress(book_id) ==
    IF ProgressOf(book_id) = {} THEN None ELSE Min(ProgressOf(book_id))


----------------------------------------------------------------------------
(* The record of the call that has returned since the last call was made   *)
(* (NoCall while there is none): its name, arguments and outcome ("ok"     *)
(* when it returned, otherwise the exception it raised), the generator     *)
(* requests it issued, and, for update_user_progress, how many consecutive *)
(* calls with its arguments (same book, same chapter) had returned when it *)
(* was made, counted up to two.                                            *)

Call(op, book, chapter, concept, understood, outcome, gen, again) ==
    [op |-> op, book |-> book, chapter |-> chapter, concept |-> concept,
     understood |-> understood, outcome |-> outcome, gen |-> gen, again |-> again]

NoCall == Call("none", None, None, None, FALSE, "ok", {}, 0)

(* what a call that raised, or whose value is not followed, leaves in result *)
NoResult == <<>>

(* pdf_extractor.py 24-34: the object as constructed, for a file with the  *)
(* given pages.  calls counts the detect_chapters calls made on it and     *)
(* custom_ranges is the argument of the last one.                          *)
PDFExtractor(pages) ==
    [pdf |-> pages, pages_text |-> <<>>, raw_text |-> <<>>, chapters |-> <<>>,
     calls |-> 0, custom_ranges |-> <<>>]

(* the tables as they are *)
(* the rows of the store *)
Rows == Len(books) + Len(chapters) + BagCardinality(summaries) + Len(concepts)
        + Len(progress) + BagCardinality(worksheets)

Tables ==
    [books |-> books, chapters |-> chapters, summaries |-> summaries,
     concepts |-> concepts, progress |-> progress, worksheets |-> worksheets]

(* A caller with no call under way.  While one is, op is the call, pc the  *)
(* store operation it makes next, book, chapter, concept and understood    *)
(* its arguments or the ids it fetched, book_row the Book row it fetched   *)
(* (None: there was none), items what its loop has still to visit, gen the *)
(* generator requests made, view what it has fetched for its return value, *)
(* seen the row its last SELECT loaded (<<>>: none), again the number of   *)
(* calls it repeats; calls is the number of calls the caller may still     *)
(* make.  before is the tables as they were when the call was made, kept   *)
(* where no call of another caller overlaps it; after a                    *)
(* reset_chapter_progress it is kept until the caller's next call, to tell *)
(* the flags the reset cleared (<<>> after any other call).                *)
Idle == [pc |-> "idle", op |-> "none", book |-> None, chapter |-> None,
         concept |-> None, understood |-> FALSE, book_row |-> None,
         items |-> <<>>, gen |-> {}, view |-> <<>>, seen |-> <<>>,
         before |-> <<>>, again |-> 0, calls |-> Unlimited]

Procs == {1, 2}

(* one caller: the calls are made one after another *)
OneCaller == <<Idle, [Idle EXCEPT !.calls = 0]>>

(* one caller of MaxDirect calls *)
DirectCaller == <<[Idle EXCEPT !.calls = MaxDirect], [Idle EXCEPT !.calls = 0]>>

(* one caller of MaxEdited calls *)
EditedCaller == <<[Idle EXCEPT !.calls = MaxEdited], [Idle EXCEPT !.calls = 0]>>

(* two callers, whose calls overlap, MaxCalls calls the first and one the  *)
(* second                                                                  *)
CallerAndOne == <<[Idle EXCEPT !.calls = MaxCalls], [Idle EXCEPT !.calls = 1]>>

(* two callers, whose calls overlap, MaxCalls calls each *)
TwoCallers == <<[Idle EXCEPT !.calls = MaxCalls], [Idle EXCEPT !.calls = MaxCalls]>>

Init ==
    /\ books = <<>>
    /\ chapters = <<>>
    /\ summaries = EmptyBag
    /\ concepts = <<>>
    /\ progress = <<>>
    /\ worksheets = EmptyBag
    /\ last = NoCall
    /\ result = NoResult
    /\ segmenter = PDFExtractor(<<>>)
    /\ sessions = OneCaller

(* caller i may make a call: it has none under way and calls left *)
CanBegin(i) ==
    /\ sessions[i].pc = "idle"
    /\ sessions[i].calls # 0

CallsLeft(i) == IF sessions[i].calls = Unlimited THEN Unlimited
                ELSE sessions[i].calls - 1

(* the number of consecutive calls, counted up to two, that the            *)
(* update_user_progress call with these arguments repeats                  *)
Again(op, book, chapter) ==
    IF /\ op = "update_user_progress"
       /\ last.op = op /\ last.book = book /\ last.chapter = chapter
    THEN Min({last.again + 1, 2})
    ELSE 0

(* no call of another caller overlaps a call of caller i *)
Alone(i) == \A j \in Procs \ {i} : sessions[j].calls = 0

(* caller i makes a call that goes on to its next store operation *)
SessionBegins(i, next) ==
    /\ sessions' = [sessions EXCEPT ![i] =
                       [next EXCEPT !.calls = CallsLeft(i),
                                    !.before = IF Alone(i) THEN Tables ELSE <<>>,
                                    !.again = Again(next.op, next.book, next.chapter)]]
    /\ last' = NoCall
    /\ result' = NoResult
    /\ UNCHANGED segmenter

(* caller i makes a call that ends with its first store operation *)
SessionOnce(i, call, value) ==
    /\ sessions' = [sessions EXCEPT ![i].calls = CallsLeft(i), ![i].before = <<>>]
    /\ last' = call
    /\ result' = value
    /\ UNCHANGED segmenter

RECURSIVE Sorted(_)
(* the ids of a query result, in the order of the rows *)
Sorted(ids) == IF ids = {} THEN <<>> ELSE <<Min(ids)>> \o Sorted(ids \ {Min(ids)})

(* the record of the call of a caller when it ends *)
CallOf(s, outcome, gen) ==
    LET op == IF s.op = "render_chapter_content" THEN "generate_worksheet" ELSE s.op
        book == IF s.op \in {"update_user_progress", "get_book_progress",
                             "process_uploaded_pdf"}
                THEN s.book ELSE None
    IN Call(op, book, s.chapter, s.concept, s.understood, outcome, gen, s.again)

(* what a caller keeps of the tables its call found when the call ends:   *)
(* those a reset_chapter_progress found                                    *)
Kept(s) == IF s.op = "reset_chapter_progress" THEN s.before ELSE <<>>

(* the call of caller i ends: it returns value or raises outcome *)
SessionEnds(i, outcome, gen, value) ==
    /\ sessions' = [sessions EXCEPT ![i] = [Idle EXCEPT !.calls = sessions[i].calls,
                                                         !.before = Kept(sessions[i])]]
    /\ last' = CallOf(sessions[i], outcome, gen)
    /\ result' = value
    /\ UNCHANGED segmenter

(* the call of caller i goes on to its next store operation *)
SessionGoes(i, next) ==
    /\ sessions' = [sessions EXCEPT ![i] = next]
    /\ UNCHANGED <<last, result, segmenter>>

----------------------------------------------------------------------------
(* Writes of DatabaseManager, as functions of the table they change *)

create_summary(table, chapter_id) == table (+) SetToBag({chapter_id})

create_concept(table, chapter_id) ==
    Append(table, [chapter_id |-> chapter_id, is_understood |-> FALSE])

(* database.py 379: the row the query finds, as loaded *)
concept_read(table, concept_id) ==
    IF concept_id \in 1..Len(table)
    THEN <<[row |-> concept_id, is_understood |-> table[concept_id].is_understood]>>
    ELSE <<>>

(* database.py 380-384: nothing is written when no row was found; the      *)
(* commit writes the flag if the value set differs from the one loaded     *)
concept_write(table, seen, understood) ==
    IF seen = <<>> \/ seen[1].is_understood = understood
    THEN table
    ELSE [table EXCEPT ![seen[1].row].is_understood = understood]

(* database.py 485: the row the query finds, as loaded *)
progress_read(table, book_id) ==
    LET found == {p \in 1..Len(table) : table[p].book_id = book_id} IN
    IF found = {} THEN <<>>
    ELSE <<[row |-> Min(found),
            last_chapter_id |-> table[Min(found)].last_chapter_id,
            completed_chapters |-> table[Min(found)].completed_chapters]>>

(* a write that adds a record whatever the query found *)
progress_write_insert_always(table, seen, book_id, chapter_id) ==
    [raised |-> FALSE,
     table |-> Append(table, [book_id |-> book_id,
                              last_chapter_id |-> chapter_id,
                              completed_chapters |-> json_dumps(<<>>)])]

(* a write whose new record already lists the chapter *)
progress_write_create_completed(table, seen, book_id, chapter_id) ==
    IF seen = <<>>
    THEN [raised |-> FALSE,
          table |-> Append(table, [book_id |-> book_id,
                                   last_chapter_id |-> chapter_id,
                                   completed_chapters |->
                                       IF chapter_id = None THEN json_dumps(<<>>)
                                       ELSE json_dumps(<<chapter_id>>)])]
    ELSE IF chapter_id = None
    THEN [raised |-> FALSE, table |-> table]
    ELSE
    LET row == seen[1].row
        parsed == json_loads(seen[1].completed_chapters)
        visited == IF seen[1].last_chapter_id # chapter_id
                   THEN [table EXCEPT ![row].last_chapter_id = chapter_id]
                   ELSE table
    IN IF parsed.raised
       THEN [raised |-> TRUE, table |-> table]
       ELSE IF chapter_id \in Range(parsed.value)
       THEN [raised |-> FALSE, table |-> visited]
       ELSE [raised |-> FALSE,
             table |-> [visited EXCEPT ![row].completed_chapters =
                            json_dumps(Append(parsed.value, chapter_id))]]

(* a write without the membership test of line 498 *)
progress_write_always_append(table, seen, book_id, chapter_id) ==
    IF seen = <<>>
    THEN [raised |-> FALSE,
          table |-> Append(table, [book_id |-> book_id,
                                   last_chapter_id |-> chapter_id,
                                   completed_chapters |-> json_dumps(<<>>)])]
    ELSE IF chapter_id = None
    THEN [raised |-> FALSE, table |-> table]
    ELSE
    LET row == seen[1].row
        parsed == json_loads(seen[1].completed_chapters)
        visited == IF seen[1].last_chapter_id # chapter_id
                   THEN [table EXCEPT ![row].last_chapter_id = chapter_id]
                   ELSE table
    IN IF parsed.raised
       THEN [raised |-> TRUE, table |-> table]
       ELSE [raised |-> FALSE,
             table |-> [visited EXCEPT ![row].completed_chapters =
                            json_dumps(Append(parsed.value, chapter_id))]]

(* database.py 487-510: what the commit writes for the row that was        *)
(* loaded: a new row if none was found, else the columns whose value       *)
(* differs from the one loaded.  raised: json.loads failed, the session    *)
(* was rolled back and the exception re-raised.                            *)
progress_write(table, seen, book_id, chapter_id) ==
    IF seen = <<>>
    THEN [raised |-> FALSE,
          table |-> Append(table, [book_id |-> book_id,
                                   last_chapter_id |-> chapter_id,
                                   completed_chapters |-> json_dumps(<<>>)])]
    ELSE IF chapter_id = None
    THEN [raised |-> FALSE, table |-> table]
    ELSE
    LET row == seen[1].row
        parsed == json_loads(seen[1].completed_chapters)
        visited == IF seen[1].last_chapter_id # chapter_id
                   THEN [table EXCEPT ![row].last_chapter_id = chapter_id]
                   ELSE table
    IN IF parsed.raised
       THEN [raised |-> TRUE, table |-> table]
       ELSE IF chapter_id \in Range(parsed.value)
       THEN [raised |-> FALSE, table |-> visited]
       ELSE [raised |-> FALSE,
             table |-> [visited EXCEPT ![row].completed_chapters =
                            json_dumps(Append(parsed.value, chapter_id))]]

(* database.py 409-453: adds a row whatever rows the chapter already has *)
create_worksheet(table, chapter_id) == table (+) SetToBag({chapter_id})

(* database.py 455-470 *)
get_worksheet(chapter_id) ==
    IF CopiesIn(chapter_id, worksheets) = 0 THEN None ELSE chapter_id

(* database.py 193-207 *)
get_book(book_id) == IF book_id \in 1..Len(books) THEN book_id ELSE None

----------------------------------------------------------------------------
(* The text generator (ChapterSummarizer) *)

(* summarize_chapter, summarizer.py 140-169: the chain's text, or the      *)
(* chain's exception, logged and re-raised                                 *)
SummaryReplies == {"text", "error"}

(* The reply of the concept-extraction chain: an exception, a text with no *)
(* parseable JSON, or a JSON array.  An item of the array is "good" (an    *)
(* object with the keys name and explanation and values a row can hold),   *)
(* "bad" (an object that lacks one of the keys), "not_object" (a number, a *)
(* string, a list, null), "null" (an object whose name or explanation is   *)
(* null) or "unstorable" (an object with a list or an object as a value).  *)
(* The arrays followed here: empty, and one item of each kind.             *)
ItemKinds == {"good", "bad", "not_object", "null", "unstorable"}

ItemLists == {<<>>} \cup {<<item>> : item \in ItemKinds}

(* what creating the concept of an item raises, interactive_learning.py    *)
(* 68-74: concept_data["name"] raises KeyError on a missing key and        *)
(* TypeError on what is no object; create_concept (database.py 332-364)    *)
(* rolls back and re-raises the IntegrityError of a null in a column that  *)
(* is nullable=False (database.py 94-95) and the error of a value sqlite   *)
(* cannot bind (ProgrammingError; InterfaceError before Python 3.11).      *)
item_error(item) ==
    CASE item = "bad" -> "KeyError"
      [] item = "not_object" -> "TypeError"
      [] item = "null" -> "IntegrityError"
      [] item = "unstorable" -> "ProgrammingError"
      [] OTHER -> "ok"

ExtractReplies ==
    {[kind |-> "error", items |-> <<>>], [kind |-> "unparseable", items |-> <<>>]}
    \cup {[kind |-> "json", items |-> l] : l \in ItemLists}

(* an extract_concepts whose except branch returns an error record         *)
(* instead of the empty list                                               *)
extract_concepts_error_record(reply) ==
    IF reply.kind = "json" THEN reply.items ELSE <<"bad">>

(* extract_concepts, summarizer.py 263-302: every exception gives [] *)
extract_concepts(reply) == IF reply.kind = "json" THEN reply.items ELSE <<>>

Asked(method, reply) == [method |-> method, reply |-> reply]

----------------------------------------------------------------------------
(* The upload of a file, ui/app.py 171-217 *)

(* chapters that uploads under way have still to create *)
PendingChapters ==
    LET Of(i) == IF sessions[i].op = "process_uploaded_pdf" THEN Len(sessions[i].items)
                 ELSE 0
    IN Of(1) + Of(2)

(* the chapter numbers of the chapters of a file, in the order in which    *)
(* the segmenter returns them, ui/app.py 194-199: the number in a label    *)
(* "Chapter <number>", 1 for any other label                               *)
ChapterNumbers == UNION {[1..n -> 1..MaxChapters] : n \in 0..MaxChapters}

(* ui/app.py 184-189: create_book (database.py 168-191), then the reading  *)
(* of the file, which gives the chapters numbered nums (the segmenter      *)
(* returns at least one; none: the file cannot be read, extract_text       *)
(* raises, lines 212-214 show the error and the book stays, with no        *)
(* chapter)                                                                *)
UploadCreateBook(i, nums) ==
    /\ CanBegin(i)
    /\ Len(books) < MaxBooks
    /\ Len(chapters) + PendingChapters + Len(nums) <= MaxChapters
    /\ books' = Append(books, [id |-> Len(books) + 1])
    /\ IF nums = <<>>
       THEN SessionOnce(i, Call("process_uploaded_pdf", Len(books) + 1, None, None,
                                FALSE, "shown_error", {}, 0), NoResult)
       ELSE SessionBegins(i, [Idle EXCEPT !.op = "process_uploaded_pdf",
                                        !.pc = "create_chapter",
                                        !.book = Len(books) + 1,
                                        !.items = nums])
    /\ UNCHANGED <<chapters, summaries, concepts, progress, worksheets>>

(* ui/app.py 192-207: one turn of the loop, create_chapter (database.py    *)
(* 224-254)                                                                *)
UploadCreateChapter(i) ==
    /\ sessions[i].pc = "create_chapter"
    /\ chapters' = Append(chapters, [book_id |-> sessions[i].book,
                                     chapter_number |-> Head(sessions[i].items)])
    /\ IF Len(sessions[i].items) = 1
       THEN SessionEnds(i, "ok", {}, NoResult)
       ELSE SessionGoes(i, [sessions[i] EXCEPT !.items = Tail(sessions[i].items)])
    /\ UNCHANGED <<books, summaries, concepts, progress, worksheets>>

----------------------------------------------------------------------------
(* DatabaseManager.mark_concept_understood and update_user_progress: a     *)
(* query, then a commit                                                    *)

(* database.py 366-379: mark_concept_understood called directly, up to its *)
(* query; no row found: it returns None (380, 384)                         *)
MarkConceptUnderstoodCalled(i, concept_id, understood) ==
    /\ CanBegin(i)
    /\ IF concept_read(concepts, concept_id) = <<>>
       THEN SessionOnce(i, Call("mark_concept_understood", None, None, concept_id,
                                understood, "ok", {}, 0), NoResult)
       ELSE SessionBegins(i, [Idle EXCEPT !.op = "mark_concept_understood",
                                        !.pc = "mark_write",
                                        !.concept = concept_id,
                                        !.understood = understood,
                                        !.seen = concept_read(concepts, concept_id)])
    /\ UNCHANGED store

(* database.py 379, within reset_chapter_progress (interactive_learning.py *)
(* 256-257): the query for the next concept of the loop                    *)
MarkConceptUnderstoodRead(i) ==
    /\ sessions[i].pc = "mark_read"
    /\ SessionGoes(i, [sessions[i] EXCEPT
           !.pc = "mark_write",
           !.seen = concept_read(concepts, Head(sessions[i].items))])
    /\ UNCHANGED store

(* database.py 380-390, and what the call it is made in does next *)
MarkConceptUnderstoodWrite(i) ==
    LET s == sessions[i] IN
    /\ s.pc = "mark_write"
    /\ concepts' = concept_write(concepts, s.seen, s.understood)
    /\ IF s.op = "mark_concept_understood"
       THEN SessionEnds(i, "ok", {}, NoResult)
       ELSE SessionGoes(i, [s EXCEPT
                !.items = Tail(s.items),
                !.seen = <<>>,
                !.pc = IF Tail(s.items) = <<>> THEN "reset_get_chapter"
                       ELSE "mark_read"])
    /\ UNCHANGED <<books, chapters, summaries, progress, worksheets>>

RECURSIVE Listed(_)
(* the number of ids the completed lists of a progress table hold *)
Listed(table) ==
    IF table = <<>> THEN 0
    ELSE Len(Head(table).completed_chapters.items) + Listed(Tail(table))

(* the chapter_id argument of the update_user_progress of a call:          *)
(* reset_chapter_progress passes none (interactive_learning.py 270)        *)
UpdateArg(s) == IF s.op = "reset_chapter_progress" THEN None ELSE s.chapter

(* database.py 472-485: update_user_progress called directly, up to its    *)
(* query.  Neither id is looked up: the book and the chapter may be any.   *)
(* A caller whose calls are not counted makes the call on a store of at    *)
(* most MaxRows rows and listed ids.                                       *)
UpdateUserProgressCalled(i, book_id, chapter_id) ==
    /\ CanBegin(i)
    /\ sessions[i].calls = Unlimited => Rows + Listed(progress) <= MaxRows
    /\ SessionBegins(i, [Idle EXCEPT !.op = "update_user_progress",
                                   !.pc = "update_write",
                                   !.book = book_id,
                                   !.chapter = chapter_id,
                                   !.seen = progress_read(progress, book_id)])
    /\ UNCHANGED store

(* database.py 485, within start_learning_session (interactive_learning.py *)
(* 80) and reset_chapter_progress (270)                                    *)
UpdateUserProgressRead(i) ==
    /\ sessions[i].pc = "update_read"
    /\ SessionGoes(i, [sessions[i] EXCEPT
           !.pc = "update_write",
           !.seen = progress_read(progress, sessions[i].book)])
    /\ UNCHANGED store

(* start_learning_session has returned value or raised outcome.  In a run  *)
(* of _render_chapter_content (ui/app.py 304-307) what it raises ends the  *)
(* run, and so does the header (book.title) when get_book had found no     *)
(* book.                                                                   *)
SessionReturns(i, outcome, gen, value) ==
    IF sessions[i].op = "start_learning_session" \/ outcome # "ok"
    THEN SessionEnds(i, outcome, gen, value)
    ELSE IF sessions[i].book_row = None
    THEN SessionEnds(i, "AttributeError", gen, NoResult)
    ELSE SessionGoes(i, [sessions[i] EXCEPT !.pc = "tab_get_concepts", !.seen = <<>>])

(* database.py 487-510, and the return of the call it is made in *)
UpdateUserProgressWrite(i) ==
    LET s == sessions[i]
        up == progress_write(progress, s.seen, s.book, UpdateArg(s))
        outcome == IF up.raised THEN "JSONDecodeError" ELSE "ok"
    IN
    /\ s.pc = "update_write"
    /\ progress' = up.table
    /\ IF s.op \in {"update_user_progress", "reset_chapter_progress"}
       THEN SessionEnds(i, outcome, {}, NoResult)
       ELSE SessionReturns(i, outcome, s.gen, IF up.raised THEN NoResult ELSE s.view)
    /\ UNCHANGED <<books, chapters, summaries, concepts, worksheets>>

----------------------------------------------------------------------------
(* InteractiveLearning.start_learning_session, interactive_learning.py     *)
(* 36-101                                                                  *)

(* a view that reports every concept with the flag it was created with *)
session_view_as_created(table, ids) == [k \in ids |-> FALSE]

(* interactive_learning.py 90-100: the concept list of the returned view,  *)
(* each fetched concept id with the is_understood value fetched with it    *)
session_view(table, ids) == [k \in ids |-> table[k].is_understood]

(* interactive_learning.py 36-52: start_learning_session called directly,  *)
(* up to its get_chapter                                                   *)
SessionCalled(i, chapter_id) ==
    /\ CanBegin(i)
    /\ IF get_chapter(chapter_id) = None
       THEN SessionOnce(i, Call("start_learning_session", None, chapter_id, None, FALSE,
                                "ValueError", {}, 0), NoResult)
       ELSE SessionBegins(i, [Idle EXCEPT !.op = "start_learning_session",
                                          !.pc = "get_summary",
                                          !.chapter = chapter_id,
                                          !.book = chapters[chapter_id].book_id])
    /\ UNCHANGED store

(* interactive_learning.py 48-52: get_chapter, within a run of             *)
(* _render_chapter_content (ui/app.py 304)                                 *)
SessionGetChapter(i) ==
    /\ sessions[i].pc = "session_get_chapter"
    /\ IF get_chapter(sessions[i].chapter) = None
       THEN SessionEnds(i, "ValueError", {}, NoResult)
       ELSE SessionGoes(i, [sessions[i] EXCEPT
                !.pc = "get_summary",
                !.book = chapters[sessions[i].chapter].book_id])
    /\ UNCHANGED store

(* interactive_learning.py 55-56 *)
SessionGetSummary(i) ==
    /\ sessions[i].pc = "get_summary"
    /\ SessionGoes(i, [sessions[i] EXCEPT !.pc =
            IF get_summary(sessions[i].chapter) # None
            THEN "get_concepts" ELSE "create_summary"])
    /\ UNCHANGED store

(* interactive_learning.py 60-64: summarize_chapter, create_summary, then  *)
(* extract_concepts                                                        *)
SessionCreateSummary(i) ==
    /\ sessions[i].pc = "create_summary"
    /\ \E summaryReply \in SummaryReplies :
          IF summaryReply = "error"
          THEN /\ SessionEnds(i, "GenerationError",
                              {Asked("summarize_chapter", "error")}, NoResult)
               /\ UNCHANGED store
          ELSE \E extractReply \in ExtractReplies :
               LET concepts_data == extract_concepts(extractReply) IN
               /\ summaries' = create_summary(summaries, sessions[i].chapter)
               /\ SessionGoes(i, [sessions[i] EXCEPT
                      !.pc = IF concepts_data = <<>> THEN "get_concepts"
                             ELSE "create_concept",
                      !.items = concepts_data,
                      !.gen = {Asked("summarize_chapter", "text"),
                               Asked("extract_concepts", extractReply.kind)}])
               /\ UNCHANGED <<books, chapters, concepts, progress, worksheets>>

(* interactive_learning.py 67-74: one turn of the loop *)
SessionCreateConcept(i) ==
    /\ sessions[i].pc = "create_concept"
    /\ IF item_error(Head(sessions[i].items)) # "ok"
       THEN /\ SessionEnds(i, item_error(Head(sessions[i].items)), sessions[i].gen,
                           NoResult)
            /\ UNCHANGED store
       ELSE /\ concepts' = create_concept(concepts, sessions[i].chapter)
            /\ SessionGoes(i, [sessions[i] EXCEPT
                   !.items = Tail(sessions[i].items),
                   !.pc = IF Tail(sessions[i].items) = <<>> THEN "get_concepts"
                          ELSE "create_concept"])
            /\ UNCHANGED <<books, chapters, summaries, progress, worksheets>>

(* interactive_learning.py 77 *)
SessionGetConcepts(i) ==
    /\ sessions[i].pc = "get_concepts"
    /\ SessionGoes(i, [sessions[i] EXCEPT
           !.pc = "update_read",
           !.items = <<>>,
           !.view = session_view(concepts, get_concepts_by_chapter(sessions[i].chapter))])
    /\ UNCHANGED store

----------------------------------------------------------------------------
(* InteractiveLearning.process_concept_understanding *)

(* the methods DatabaseManager defines, database.py 150-527 *)
DatabaseManagerMethods ==
    {"create_book", "get_book", "get_all_books", "create_chapter", "get_chapter",
     "get_chapters_by_book", "create_summary", "get_summary", "create_concept",
     "mark_concept_understood", "get_concepts_by_chapter", "create_worksheet",
     "get_worksheet", "update_user_progress", "get_user_progress"}

(* a process_concept_understanding that stores the answer before it looks *)
(* the concept up                                                          *)
ProcessConceptUnderstandingMarking(i, concept_id, understood) ==
    /\ CanBegin(i)
    /\ concepts' = concept_write(concepts, concept_read(concepts, concept_id), understood)
    /\ SessionOnce(i, Call("process_concept_understanding", None, None, concept_id,
                           understood, "AttributeError", {}, 0), NoResult)
    /\ UNCHANGED <<books, chapters, summaries, progress, worksheets>>

(* interactive_learning.py 103-147.  Line 117 calls db_manager.get_concept, *)
(* which DatabaseManager does not define: the attribute lookup raises       *)
(* AttributeError before anything is read or written, for every argument.   *)
ProcessConceptUnderstanding(i, concept_id, understood) ==
    /\ CanBegin(i)
    /\ "get_concept" \notin DatabaseManagerMethods
    /\ SessionOnce(i, Call("process_concept_understanding", None, None, concept_id,
                           understood, "AttributeError", {}, 0), NoResult)
    /\ UNCHANGED store

----------------------------------------------------------------------------
(* InteractiveLearning.reset_chapter_progress, interactive_learning.py     *)
(* 240-274                                                                 *)

(* interactive_learning.py 253 *)
ResetGetConcepts(i, chapter_id) ==
    LET ids == Sorted(get_concepts_by_chapter(chapter_id)) IN
    /\ CanBegin(i)
    /\ SessionBegins(i, [Idle EXCEPT !.op = "reset_chapter_progress",
                                   !.pc = IF ids = <<>> THEN "reset_get_chapter"
                                          ELSE "mark_read",
                                   !.chapter = chapter_id,
                                   !.items = ids])
    /\ UNCHANGED store

(* interactive_learning.py 260-261 *)
ResetGetChapter(i) ==
    /\ sessions[i].pc = "reset_get_chapter"
    /\ IF get_chapter(sessions[i].chapter) = None
       THEN SessionEnds(i, "ok", {}, NoResult)
       ELSE SessionGoes(i, [sessions[i] EXCEPT
                !.pc = "reset_get_user_progress",
                !.book = chapters[sessions[i].chapter].book_id])
    /\ UNCHANGED store

(* the test of the fetched list without the except clause of lines 271-272 *)
listed_uncaught(text, chapter_id) ==
    IF ~Truthy(text) THEN [raised |-> FALSE, listed |-> FALSE]
    ELSE IF json_loads(text).raised THEN [raised |-> TRUE, listed |-> FALSE]
    ELSE [raised |-> FALSE, listed |-> chapter_id \in Range(json_loads(text).value)]

(* interactive_learning.py 264-272: the completed_chapters text is parsed  *)
(* if it is not empty and the chapter looked for in the list; the          *)
(* JSONDecodeError of json.loads is caught (271-272)                       *)
listed(text, chapter_id) ==
    IF ~Truthy(text) THEN [raised |-> FALSE, listed |-> FALSE]
    ELSE IF json_loads(text).raised THEN [raised |-> FALSE, listed |-> FALSE]
    ELSE [raised |-> FALSE, listed |-> chapter_id \in Range(json_loads(text).value)]

(* interactive_learning.py 263-272: get_user_progress and the test of the  *)
(* list it holds.  The chapter is removed from the list of the fetched     *)
(* object only, whose session is closed; update_user_progress(book_id)     *)
(* then runs with chapter_id = None on a row it reads afresh.              *)
ResetGetUserProgress(i) ==
    LET s == sessions[i]
        row == get_user_progress(s.book)
        test == IF row = None THEN [raised |-> FALSE, listed |-> FALSE]
                ELSE listed(progress[row].completed_chapters, s.chapter)
    IN
    /\ s.pc = "reset_get_user_progress"
    /\ IF test.raised
       THEN SessionEnds(i, "JSONDecodeError", {}, NoResult)
       ELSE IF test.listed
       THEN SessionGoes(i, [s EXCEPT !.pc = "update_read"])
       ELSE SessionEnds(i, "ok", {}, NoResult)
    /\ UNCHANGED store

----------------------------------------------------------------------------
(* The stored file edited from outside the program, while the program has  *)
(* no call under way: the completed_chapters text of a book's progress row *)
(* is replaced by a text that is no JSON.                                  *)

ExternalEdit(book_id, text) ==
    /\ \A i \in Procs : sessions[i].pc = "idle"
    /\ get_user_progress(book_id) # None
    /\ progress[get_user_progress(book_id)].completed_chapters.kind = "list"
    /\ progress' = [progress EXCEPT
                      ![get_user_progress(book_id)].completed_chapters = text]
    /\ last' = Call("external_edit", book_id, None, None, FALSE, "ok", {}, 0)
    /\ result' = NoResult
    /\ UNCHANGED <<books, chapters, summaries, concepts, worksheets, segmenter, sessions>>

----------------------------------------------------------------------------
(* The data layer called directly (as tests/main.py, ui/app.py and the     *)
(* example at the end of database.py do), with any id as parent.           *)

(* database.py 161: the engine is created for SQLite and nothing issues    *)
(* PRAGMA foreign_keys=ON, so the ForeignKey columns are not enforced.     *)
ForeignKeysEnforced == FALSE

(* a call of one store operation: the tables it leaves, its outcome and    *)
(* its value                                                               *)
StoreCall(i, op, book_id, chapter_id, outcome, value) ==
    SessionOnce(i, Call(op, book_id, chapter_id, None, FALSE, outcome, {}, 0), value)

(* database.py 168-191 *)
CreateBook(i) ==
    /\ CanBegin(i)
    /\ Rows < MaxRows
    /\ books' = Append(books, [id |-> Len(books) + 1])
    /\ StoreCall(i, "create_book", Len(books) + 1, None, "ok", NoResult)
    /\ UNCHANGED <<chapters, summaries, concepts, progress, worksheets>>

(* database.py 224-254 *)
CreateChapter(i, book_id, chapter_number) ==
    /\ CanBegin(i)
    /\ Rows < MaxRows
    /\ IF ForeignKeysEnforced /\ book_id \notin 1..Len(books)
       THEN /\ StoreCall(i, "create_chapter", book_id, None, "IntegrityError", NoResult)
            /\ UNCHANGED store
       ELSE /\ chapters' = Append(chapters, [book_id |-> book_id,
                                            chapter_number |-> chapter_number])
            /\ StoreCall(i, "create_chapter", book_id, None, "ok", NoResult)
            /\ UNCHANGED <<books, summaries, concepts, progress, worksheets>>

(* database.py 290-313: adds a row whatever rows the chapter already has *)
CreateSummary(i, chapter_id) ==
    /\ CanBegin(i)
    /\ Rows < MaxRows
    /\ IF ForeignKeysEnforced /\ get_chapter(chapter_id) = None
       THEN /\ StoreCall(i, "create_summary", None, chapter_id, "IntegrityError", NoResult)
            /\ UNCHANGED store
       ELSE /\ summaries' = create_summary(summaries, chapter_id)
            /\ StoreCall(i, "create_summary", None, chapter_id, "ok", NoResult)
            /\ UNCHANGED <<books, chapters, concepts, progress, worksheets>>

(* database.py 332-364 *)
CreateConcept(i, chapter_id) ==
    /\ CanBegin(i)
    /\ Rows < MaxRows
    /\ IF ForeignKeysEnforced /\ get_chapter(chapter_id) = None
       THEN /\ StoreCall(i, "create_concept", None, chapter_id, "IntegrityError", NoResult)
            /\ UNCHANGED store
       ELSE /\ concepts' = create_concept(concepts, chapter_id)
            /\ StoreCall(i, "create_concept", None, chapter_id, "ok", NoResult)
            /\ UNCHANGED <<books, chapters, summaries, progress, worksheets>>

(* database.py 409-453 *)
CreateWorksheet(i, chapter_id) ==
    /\ CanBegin(i)
    /\ Rows < MaxRows
    /\ IF ForeignKeysEnforced /\ get_chapter(chapter_id) = None
       THEN /\ StoreCall(i, "create_worksheet", None, chapter_id, "IntegrityError", NoResult)
            /\ UNCHANGED store
       ELSE /\ worksheets' = create_worksheet(worksheets, chapter_id)
            /\ StoreCall(i, "create_worksheet", None, chapter_id, "ok", NoResult)
            /\ UNCHANGED <<books, chapters, summaries, concepts, progress>>

(* database.py 256-271 *)
GetChapter(i, chapter_id) ==
    /\ CanBegin(i)
    /\ StoreCall(i, "get_chapter", None, chapter_id, "ok", get_chapter(chapter_id))
    /\ UNCHANGED store

(* database.py 392-407 *)
GetConceptsByChapter(i, chapter_id) ==
    /\ CanBegin(i)
    /\ StoreCall(i, "get_concepts_by_chapter", None, chapter_id, "ok",
                 get_concepts_by_chapter(chapter_id))
    /\ UNCHANGED store

(* database.py 273-288 *)
GetChaptersByBook(i, book_id) ==
    /\ CanBegin(i)
    /\ StoreCall(i, "get_chapters_by_book", book_id, None, "ok",
                 get_chapters_by_book(book_id))
    /\ UNCHANGED store

(* database.py 512-527 *)
GetUserProgress(i, book_id) ==
    /\ CanBegin(i)
    /\ StoreCall(i, "get_user_progress", book_id, None, "ok", get_user_progress(book_id))
    /\ UNCHANGED store

----------------------------------------------------------------------------
(* The read side of InteractiveLearning *)

RECURSIVE GCD(_, _)
GCD(a, b) == IF b = 0 THEN a ELSE GCD(b, a % b)

(* the value of the float expression  understood / total * 100  as the     *)
(* fraction num/den in lowest terms (two such floats are equal exactly     *)
(* when the fractions are)                                                 *)
Quotient100(understood, total) ==
    LET g == GCD(understood * 100, total) IN
    [num |-> (understood * 100) \div g, den |-> total \div g]

Zero == [num |-> 0, den |-> 1]

(* the percentage without the test of the total *)
percentage_unguarded(understood, total) ==
    IF total = 0 THEN [num |-> 0, den |-> 0] ELSE Quotient100(understood, total)

(* interactive_learning.py 167 and 230:                                    *)
(*   (understood / total * 100) if total > 0 else 0                        *)
percentage(understood, total) ==
    IF total > 0 THEN Quotient100(understood, total) ELSE Zero

(* interactive_learning.py 149-181: the value computed from the rows that  *)
(* get_concepts_by_chapter (162) returns                                   *)
get_chapter_progress(chapter_id) ==
    LET ids == get_concepts_by_chapter(chapter_id)
        total_concepts == Cardinality(ids)
        understood_concepts == Cardinality({k \in ids : concepts[k].is_understood})
    IN [total_concepts |-> total_concepts,
        understood_concepts |-> understood_concepts,
        progress_percentage |-> percentage(understood_concepts, total_concepts),
        concepts |-> session_view(concepts, ids)]

(* interactive_learning.py 149-181: its one store operation is             *)
(* get_concepts_by_chapter                                                 *)
GetChapterProgress(i, chapter_id) ==
    /\ CanBegin(i)
    /\ StoreCall(i, "get_chapter_progress", None, chapter_id, "ok",
                 get_chapter_progress(chapter_id))
    /\ UNCHANGED store

(* interactive_learning.py 199-205: the completed list the report uses *)
completed_chapters_of(book_id) ==
    LET row == get_user_progress(book_id) IN
    IF row = None THEN <<>>
    ELSE IF ~Truthy(progress[row].completed_chapters) THEN <<>>
    ELSE IF json_loads(progress[row].completed_chapters).raised THEN <<>>
    ELSE json_loads(progress[row].completed_chapters).value

(* a report that calls a chapter completed only once all its concepts are  *)
(* understood                                                              *)
is_completed_when_understood(chapter_id, completed, stats) ==
    /\ chapter_id \in Range(completed)
    /\ stats.understood_concepts = stats.total_concepts

(* interactive_learning.py 226 *)
is_completed(chapter_id, completed, stats) == chapter_id \in Range(completed)

(* the report of interactive_learning.py 229-238 from what was fetched:    *)
(* stats holds the get_chapter_progress value of each chapter              *)
book_report(book_id, completed, stats) ==
    LET chs == DOMAIN stats
        Sum(field) == LET RECURSIVE Over(_)
                          Over(ids) == IF ids = {} THEN 0
                                       ELSE stats[Min(ids)][field] + Over(ids \ {Min(ids)})
                      IN Over(chs)
    IN [book_id |-> book_id,
        overall_progress |-> percentage(Sum("understood_concepts"), Sum("total_concepts")),
        total_chapters |-> Cardinality(chs),
        completed_chapters |-> Len(completed),
        chapter_progress |->
            [c \in chs |->
                [progress_percentage |-> stats[c].progress_percentage,
                 is_completed |-> is_completed(c, completed, stats[c])]]]

(* interactive_learning.py 196 *)
BookProgressGetChapters(i, book_id) ==
    /\ CanBegin(i)
    /\ SessionBegins(i, [Idle EXCEPT !.op = "get_book_progress",
                                   !.pc = "report_get_user_progress",
                                   !.book = book_id,
                                   !.items = get_chapters_by_book(book_id)])
    /\ UNCHANGED store

(* a report that makes sure the book has a progress record *)
BookProgressGetUserProgressRecording(i) ==
    LET s == sessions[i] IN
    /\ s.pc = "report_get_user_progress"
    /\ progress' = progress_write(progress, progress_read(progress, s.book),
                                  s.book, None).table
    /\ IF s.items = <<>>
       THEN SessionEnds(i, "ok", {}, book_report(s.book, completed_chapters_of(s.book), <<>>))
       ELSE SessionGoes(i, [s EXCEPT !.pc = "report_chapter_progress",
                                     !.seen = completed_chapters_of(s.book)])
    /\ UNCHANGED <<books, chapters, summaries, concepts, worksheets>>

(* interactive_learning.py 199-205 *)
BookProgressGetUserProgress(i) ==
    LET s == sessions[i] IN
    /\ s.pc = "report_get_user_progress"
    /\ IF s.items = <<>>
       THEN SessionEnds(i, "ok", {}, book_report(s.book, completed_chapters_of(s.book), <<>>))
       ELSE SessionGoes(i, [s EXCEPT !.pc = "report_chapter_progress",
                                     !.seen = completed_chapters_of(s.book)])
    /\ UNCHANGED store

(* interactive_learning.py 212-227: one turn of the loop, that is one      *)
(* get_chapter_progress and its get_concepts_by_chapter                    *)
BookProgressChapter(i) ==
    LET s == sessions[i]
        c == Head(s.items)
        stats == [k \in DOMAIN s.view \cup {c} |->
                     IF k = c THEN get_chapter_progress(c) ELSE s.view[k]]
    IN
    /\ s.pc = "report_chapter_progress"
    /\ IF Tail(s.items) = <<>>
       THEN SessionEnds(i, "ok", {}, book_report(s.book, s.seen, stats))
       ELSE SessionGoes(i, [s EXCEPT !.items = Tail(s.items), !.view = stats])
    /\ UNCHANGED store

----------------------------------------------------------------------------
(* The chapter page, ui/app.py 290-436: one run of _render_chapter_content *)
(* with the button "Generate Worksheet" pressed                            *)

(* ui/app.py 293-298: get_chapter; no chapter: an error is shown and the   *)
(* page goes back to the chapter list.  The page is opened on a store of   *)
(* at most MaxRows rows.                                                   *)
RenderGetChapter(i, chapter_id) ==
    /\ CanBegin(i)
    /\ Rows <= MaxRows
    /\ IF get_chapter(chapter_id) = None
       THEN SessionOnce(i, Call("generate_worksheet", None, chapter_id, None, FALSE,
                                "chapter_not_found", {}, 0), NoResult)
       ELSE SessionBegins(i, [Idle EXCEPT !.op = "render_chapter_content",
                                        !.pc = "get_book",
                                        !.chapter = chapter_id,
                                        !.book = chapters[chapter_id].book_id])
    /\ UNCHANGED store

(* ui/app.py 301; line 304 then calls start_learning_session *)
RenderGetBook(i) ==
    /\ sessions[i].pc = "get_book"
    /\ SessionGoes(i, [sessions[i] EXCEPT
           !.pc = "session_get_chapter",
           !.book_row = get_book(sessions[i].book)])
    /\ UNCHANGED store

(* ui/app.py 321: get_chapter_progress for the bar of the concepts tab,    *)
(* that is get_concepts_by_chapter                                         *)
RenderGetChapterProgress(i) ==
    /\ sessions[i].pc = "tab_get_concepts"
    /\ SessionGoes(i, [sessions[i] EXCEPT !.pc = "get_worksheet"])
    /\ UNCHANGED store

(* ui/app.py 367-369: the button is there unless the chapter has a         *)
(* Worksheet row whose file is on disk (file_on_disk, decided outside the  *)
(* program)                                                                *)
RenderGetWorksheet(i, file_on_disk) ==
    /\ sessions[i].pc = "get_worksheet"
    /\ IF get_worksheet(sessions[i].chapter) # None /\ file_on_disk
       THEN SessionEnds(i, "no_button", sessions[i].gen, NoResult)
       ELSE SessionGoes(i, [sessions[i] EXCEPT !.pc = "worksheet_get_summary"])
    /\ UNCHANGED store

(* ui/app.py 399 *)
RenderGetSummary(i) ==
    /\ sessions[i].pc = "worksheet_get_summary"
    /\ SessionGoes(i, [sessions[i] EXCEPT
           !.pc = "worksheet_get_concepts",
           !.seen = IF get_summary(sessions[i].chapter) = None THEN <<>>
                    ELSE <<sessions[i].chapter>>])
    /\ UNCHANGED store

(* ui/app.py 402-423: get_concepts_by_chapter, then generate_worksheet     *)
(* (summary.content raises when no summary was found; pdf = "error": the   *)
(* generator raised); lines 433-435 show what is raised                    *)
RenderGetConcepts(i, pdf) ==
    LET s == sessions[i]
        gen == s.gen \cup {Asked("generate_worksheet", pdf)}
    IN
    /\ s.pc = "worksheet_get_concepts"
    /\ IF s.seen = <<>>
       THEN SessionEnds(i, "shown_error", s.gen, NoResult)
       ELSE IF pdf = "error"
       THEN SessionEnds(i, "shown_error", gen, NoResult)
       ELSE SessionGoes(i, [s EXCEPT !.pc = "create_worksheet", !.gen = gen])
    /\ UNCHANGED store

(* ui/app.py 426-431 *)
RenderCreateWorksheet(i) ==
    /\ sessions[i].pc = "create_worksheet"
    /\ worksheets' = create_worksheet(worksheets, sessions[i].chapter)
    /\ SessionEnds(i, "ok", sessions[i].gen, NoResult)
    /\ UNCHANGED <<books, chapters, summaries, concepts, progress>>

----------------------------------------------------------------------------
(* The specifications.  The steps are taken by either caller; in Init,     *)
(* InitProgress and InitCorrupt the second caller makes no call, so a call *)
(* returns before the next one is made.                                    *)

BookArgs == 1..(Len(books) + 1)
ChapterArgs == 1..(Len(chapters) + 1)
ConceptArgs == 1..(Len(concepts) + 1)

(* the steps of an upload *)
Upload ==
    \/ \E i \in Procs : \E nums \in ChapterNumbers : UploadCreateBook(i, nums)
    \/ \E i \in Procs : UploadCreateChapter(i)

(* the steps of update_user_progress *)
Update ==
    \/ \E i \in Procs : \E b \in BookArgs, c \in {None} \cup ChapterArgs :
          UpdateUserProgressCalled(i, b, c)
    \/ \E i \in Procs : UpdateUserProgressRead(i)
    \/ \E i \in Procs : UpdateUserProgressWrite(i)

(* the steps of start_learning_session from its get_summary up to its      *)
(* update_user_progress                                                    *)
Session ==
    \/ \E i \in Procs : SessionGetSummary(i)
    \/ \E i \in Procs : SessionCreateSummary(i)
    \/ \E i \in Procs : SessionCreateConcept(i)
    \/ \E i \in Procs : SessionGetConcepts(i)

(* the steps of reset_chapter_progress up to its update_user_progress *)
Reset ==
    \/ \E i \in Procs : \E c \in ChapterArgs : ResetGetConcepts(i, c)
    \/ \E i \in Procs : MarkConceptUnderstoodRead(i)
    \/ \E i \in Procs : ResetGetChapter(i)
    \/ \E i \in Procs : ResetGetUserProgress(i)

(* the steps of get_book_progress *)
BookProgress ==
    \/ \E i \in Procs : \E b \in BookArgs : BookProgressGetChapters(i, b)
    \/ \E i \in Procs : BookProgressGetUserProgress(i)
    \/ \E i \in Procs : BookProgressChapter(i)

(* the steps of the chapter page around those of its                       *)
(* start_learning_session                                                  *)
Render ==
    \/ \E i \in Procs : \E c \in ChapterArgs : RenderGetChapter(i, c)
    \/ \E i \in Procs : RenderGetBook(i)
    \/ \E i \in Procs : SessionGetChapter(i)
    \/ \E i \in Procs : RenderGetChapterProgress(i)
    \/ \E i \in Procs : \E f \in BOOLEAN : RenderGetWorksheet(i, f)
    \/ \E i \in Procs : RenderGetSummary(i)
    \/ \E i \in Procs : \E pdf \in {"files", "error"} : RenderGetConcepts(i, pdf)
    \/ \E i \in Procs : RenderCreateWorksheet(i)

Next ==
    \/ Upload
    \/ \E i \in Procs : \E k \in ConceptArgs, u \in BOOLEAN : MarkConceptUnderstoodCalled(i, k, u)
    \/ \E i \in Procs : MarkConceptUnderstoodWrite(i)
    \/ \E i \in Procs : UpdateUserProgressRead(i)
    \/ \E i \in Procs : UpdateUserProgressWrite(i)
    \/ \E i \in Procs : \E c \in ChapterArgs : SessionCalled(i, c)
    \/ Session
    \/ \E i \in Procs : \E k \in ConceptArgs, u \in BOOLEAN : ProcessConceptUnderstanding(i, k, u)
    \/ Reset

Spec == Init /\ [][Next]_vars

(* The calls that write the progress table: update_user_progress called    *)
(* directly, with any book id and any chapter id, start_learning_session   *)
(* and reset_chapter_progress, MaxDirect calls in all.                     *)
NextProgress ==
    \/ Upload
    \/ Update
    \/ \E i \in Procs : \E c \in ChapterArgs : SessionCalled(i, c)
    \/ Session
    \/ Reset
    \/ \E i \in Procs : MarkConceptUnderstoodWrite(i)

InitProgress ==
    /\ books = <<>>
    /\ chapters = <<>>
    /\ summaries = EmptyBag
    /\ concepts = <<>>
    /\ progress = <<>>
    /\ worksheets = EmptyBag
    /\ last = NoCall
    /\ result = NoResult
    /\ segmenter = PDFExtractor(<<>>)
    /\ sessions = DirectCaller

SpecProgress == InitProgress /\ [][NextProgress]_vars

(* The calls of Next and update_user_progress called directly, on a store *)
(* whose progress records are edited between the calls                     *)
NextCorrupt ==
    \/ Next
    \/ \E i \in Procs : \E b \in BookArgs, c \in {None} \cup ChapterArgs :
          UpdateUserProgressCalled(i, b, c)
    \/ \E b \in BookArgs, text \in {GarbageText, EmptyText} : ExternalEdit(b, text)

InitCorrupt ==
    /\ books = <<>>
    /\ chapters = <<>>
    /\ summaries = EmptyBag
    /\ concepts = <<>>
    /\ progress = <<>>
    /\ worksheets = EmptyBag
    /\ last = NoCall
    /\ result = NoResult
    /\ segmenter = PDFExtractor(<<>>)
    /\ sessions = EditedCaller

SpecCorrupt == InitCorrupt /\ [][NextCorrupt]_vars

(* The data layer called directly *)
NextStore ==
    \/ \E i \in Procs : CreateBook(i)
    \/ \E i \in Procs : \E b \in BookArgs, n \in 1..MaxChapters : CreateChapter(i, b, n)
    \/ \E i \in Procs : \E c \in ChapterArgs : CreateSummary(i, c)
    \/ \E i \in Procs : \E c \in ChapterArgs : CreateConcept(i, c)
    \/ \E i \in Procs : \E c \in ChapterArgs : CreateWorksheet(i, c)
    \/ \E i \in Procs : \E k \in ConceptArgs, u \in BOOLEAN : MarkConceptUnderstoodCalled(i, k, u)
    \/ \E i \in Procs : MarkConceptUnderstoodWrite(i)
    \/ \E i \in Procs : \E b \in BookArgs, c \in {None} \cup ChapterArgs :
          UpdateUserProgressCalled(i, b, c)
    \/ \E i \in Procs : UpdateUserProgressWrite(i)
    \/ \E i \in Procs : \E c \in ChapterArgs : GetChapterProgress(i, c)
    \/ BookProgress
    \/ \E i \in Procs : \E c \in ChapterArgs : GetChapter(i, c)
    \/ \E i \in Procs : \E c \in ChapterArgs : GetConceptsByChapter(i, c)
    \/ \E i \in Procs : \E b \in BookArgs : GetChaptersByBook(i, b)
    \/ \E i \in Procs : \E b \in BookArgs : GetUserProgress(i, b)

SpecStore == Init /\ [][NextStore]_vars

(* The chapter page opened on a store the data layer filled *)
NextPage ==
    \/ \E i \in Procs : CreateBook(i)
    \/ \E i \in Procs : \E b \in BookArgs, n \in 1..MaxChapters : CreateChapter(i, b, n)
    \/ \E i \in Procs : \E c \in ChapterArgs : CreateSummary(i, c)
    \/ \E i \in Procs : \E c \in ChapterArgs : CreateConcept(i, c)
    \/ \E i \in Procs : \E c \in ChapterArgs : CreateWorksheet(i, c)
    \/ Render
    \/ Session
    \/ \E i \in Procs : UpdateUserProgressRead(i)
    \/ \E i \in Procs : UpdateUserProgressWrite(i)

SpecPage == Init /\ [][NextPage]_vars

(* The operations of InteractiveLearning on uploaded books.  A flag is set *)
(* by DatabaseManager.mark_concept_understood(k, True), the write that     *)
(* process_concept_understanding is meant to make.                         *)
NextSession ==
    \/ Upload
    \/ \E i \in Procs : \E k \in ConceptArgs : MarkConceptUnderstoodCalled(i, k, TRUE)
    \/ \E i \in Procs : MarkConceptUnderstoodWrite(i)
    \/ \E i \in Procs : \E c \in ChapterArgs : SessionCalled(i, c)
    \/ Session
    \/ \E i \in Procs : UpdateUserProgressRead(i)
    \/ \E i \in Procs : UpdateUserProgressWrite(i)
    \/ \E i \in Procs : \E k \in ConceptArgs, u \in BOOLEAN : ProcessConceptUnderstanding(i, k, u)
    \/ \E i \in Procs : \E c \in ChapterArgs : GetChapterProgress(i, c)
    \/ BookProgress
    \/ Reset

SpecSession == Init /\ [][NextSession]_vars

(* Calls that build the store, overlapping, from the empty store *)
InitConcurrent ==
    /\ books = <<>>
    /\ chapters = <<>>
    /\ summaries = EmptyBag
    /\ concepts = <<>>
    /\ progress = <<>>
    /\ worksheets = EmptyBag
    /\ last = NoCall
    /\ result = NoResult
    /\ segmenter = PDFExtractor(<<>>)
    /\ sessions = CallerAndOne

NextConcurrent ==
    \/ Upload
    \/ \E i \in Procs : \E c \in ChapterArgs : SessionCalled(i, c)
    \/ Session
    \/ Update
    \/ Render

SpecConcurrent == InitConcurrent /\ [][NextConcurrent]_vars

(* A store the callers find: a book of two chapters, stored in the reverse *)
(* of the order of their numbers, whose progress record was made by        *)
(* update_user_progress(1), and a chapter 1 with its summary and two       *)
(* concepts, both marked understood.                                       *)
Populated ==
    /\ books = <<[id |-> 1]>>
    /\ chapters = <<[book_id |-> 1, chapter_number |-> 2],
                    [book_id |-> 1, chapter_number |-> 1]>>
    /\ summaries = SetToBag({1})
    /\ concepts = <<[chapter_id |-> 1, is_understood |-> TRUE],
                    [chapter_id |-> 1, is_understood |-> TRUE]>>
    /\ progress = <<[book_id |-> 1, last_chapter_id |-> None,
                     completed_chapters |-> json_dumps(<<>>)]>>
    /\ worksheets = EmptyBag

InitPopulated ==
    /\ Populated
    /\ last = NoCall
    /\ result = NoResult
    /\ segmenter = PDFExtractor(<<>>)
    /\ sessions = TwoCallers

(* Calls on a populated store, overlapping: progress updates, marks,       *)
(* resets and reports                                                      *)
NextConcurrentStore ==
    \/ Update
    \/ Reset
    \/ BookProgress
    \/ \E i \in Procs : \E k \in ConceptArgs : MarkConceptUnderstoodCalled(i, k, TRUE)
    \/ \E i \in Procs : MarkConceptUnderstoodWrite(i)
    \/ \E i \in Procs : \E c \in ChapterArgs : GetChapterProgress(i, c)

SpecConcurrentStore == InitPopulated /\ [][NextConcurrentStore]_vars

----------------------------------------------------------------------------
(* PDFExtractor (src/src/core/pdf_extractor.py).  A text is a sequence of  *)
(* pieces; a piece is a chapter heading (one whole match of the default    *)
(* pattern), the opening of a page marker "[PAGE_", a closing bracket, a   *)
(* newline, a page number, or some other run of characters.  Adjacent      *)
(* pieces are adjacent in the text, so "]" followed by "\n" is the string  *)
(* the second replace of line 101 looks for.                               *)

NL == "\n"

(* the matches of (?:Chapter|CHAPTER)\s+(\d+|[IVXLCDM]+) that occur *)
HeadingTokens == {"Chapter 1", "CHAPTER 1", "Chapter 2"}

(* match.group(1) *)
group1(heading) == IF heading = "Chapter 2" THEN "2" ELSE "1"

(* f"Chapter {chapter_num}" *)
chapter_name(chapter_num) == IF chapter_num = "2" THEN "Chapter 2" ELSE "Chapter 1"

(* what a page of the file can hold *)
PageTokens == HeadingTokens \cup {"a", "]", NL, "[PAGE_"}

RECURSIVE Join(_, _)
(* sep.join(pieces) *)
Join(pieces, sep) ==
    IF pieces = <<>> THEN <<>>
    ELSE IF Len(pieces) = 1 THEN pieces[1]
    ELSE pieces[1] \o sep \o Join(Tail(pieces), sep)

RECURSIVE Replace(_, _, _)
(* str.replace(old, new): every occurrence, left to right *)
Replace(text, old, new) ==
    IF Len(text) < Len(old) THEN text
    ELSE IF SubSeq(text, 1, Len(old)) = old
    THEN new \o Replace(SubSeq(text, Len(old) + 1, Len(text)), old, new)
    ELSE <<Head(text)>> \o Replace(Tail(text), old, new)

(* seq[start:stop] of Python *)
py_slice(seq, start, stop) ==
    LET n == Len(seq)
        Clip(i) == IF i < 0 THEN (IF i + n < 0 THEN 0 ELSE i + n)
                   ELSE (IF i > n THEN n ELSE i)
    IN SubSeq(seq, Clip(start) + 1, Clip(stop))

(* d[key] = value on a dict *)
dict_set(d, key, value) ==
    [k \in DOMAIN d \cup {key} |-> IF k = key THEN value ELSE d[k]]

(* a dict that keeps the value a key already has *)
dict_set_if_absent(d, key, value) ==
    [k \in DOMAIN d \cup {key} |-> IF k \in DOMAIN d THEN d[k] ELSE value]

(* pdf_extractor.py 81: f"[PAGE_{i}]\n{text}" *)
marked_page(i, text) == <<"[PAGE_", ToString(i), "]", NL>> \o text

(* pdf_extractor.py 81 *)
full_text_of(pages_text) ==
    Join([i \in 1..Len(pages_text) |-> marked_page(i - 1, pages_text[i])], <<NL>>)

(* a raw text that keeps the page markers *)
raw_text_marked(pages_text) == full_text_of(pages_text)

(* pdf_extractor.py 48 *)
raw_text_of(pages_text) == Join(pages_text, <<NL>>)

(* pdf_extractor.py 36-55, for a file that can be read *)
extract_text(self) ==
    [self EXCEPT !.pages_text = self.pdf, !.raw_text = raw_text_of(self.pdf)]

(* pdf_extractor.py 84: the start offsets of the matches (first piece = 1) *)
finditer(text) == {p \in 1..Len(text) : text[p] \in HeadingTokens}

(* pdf_extractor.py 101 *)
rewrite_markers(chapter_text) ==
    Replace(Replace(chapter_text, <<"[PAGE_">>, <<NL, "Page ">>), <<"]", NL>>, <<":", NL>>)

(* a loop in which an earlier chapter keeps its label *)
store_chapter_first_wins(chs, name, text) == dict_set_if_absent(chs, name, text)

(* pdf_extractor.py 101: self.chapters[chapter_name] = ... *)
store_chapter(chs, name, text) == dict_set(chs, name, text)

RECURSIVE heading_loop(_, _, _)
(* pdf_extractor.py 92-101, over the matches not yet visited *)
heading_loop(chs, full_text, matches) ==
    IF matches = {} THEN chs
    ELSE LET start_pos == Min(matches)
             rest == matches \ {start_pos}
             end_pos == IF rest # {} THEN Min(rest) ELSE Len(full_text) + 1
             chapter_text == SubSeq(full_text, start_pos, end_pos - 1)
         IN heading_loop(store_chapter(chs, chapter_name(group1(full_text[start_pos])),
                                       rewrite_markers(chapter_text)),
                         full_text, rest)

(* a range test without the upper bound *)
valid_range_no_upper_bound(start_page, end_page, page_count) ==
    ~(start_page < 0 \/ start_page > end_page)

(* pdf_extractor.py 117, negated *)
valid_range(start_page, end_page, page_count) ==
    ~(start_page < 0 \/ end_page >= page_count \/ start_page > end_page)

(* pdf_extractor.py 106-124 *)
extract_chapters_by_ranges(self, chapter_ranges) ==
    LET kept == {name \in DOMAIN chapter_ranges :
                    valid_range(chapter_ranges[name][1], chapter_ranges[name][2],
                                Len(self.pages_text))}
        Text(name) == Join(py_slice(self.pages_text, chapter_ranges[name][1],
                                    chapter_ranges[name][2] + 1), <<NL>>)
    IN [self EXCEPT !.chapters =
            [name \in DOMAIN self.chapters \cup kept |->
                IF name \in kept THEN Text(name) ELSE self.chapters[name]]]

(* pdf_extractor.py 57-104.  custom_ranges = <<>> stands for None and for  *)
(* the empty dict, which line 74 treats alike.  The value returned is      *)
(* self.chapters.                                                          *)
detect_chapters(self, custom_ranges) ==
    LET loaded == IF self.pages_text = <<>> THEN extract_text(self) ELSE self
        full_text == full_text_of(loaded.pages_text)
    IN IF custom_ranges # <<>>
       THEN extract_chapters_by_ranges(loaded, custom_ranges)
       ELSE IF finditer(full_text) = {}
       THEN [loaded EXCEPT !.chapters = dict_set(<<>>, "Chapter 1", loaded.raw_text)]
       ELSE [loaded EXCEPT !.chapters =
                heading_loop(loaded.chapters, full_text, finditer(full_text))]

(* the pages of the scenario of three pages *)
ScenarioPages ==
    << <<"Chapter 1", NL, "Intro text.">>,
       <<"More chapter 1 text.">>,
       <<"Chapter 2", NL, "Details.">> >>

PageTexts == UNION {[1..k -> PageTokens] : k \in 0..MaxDocTokens}

RECURSIVE TokensIn(_)
TokensIn(pages) == IF pages = <<>> THEN 0 ELSE Len(Head(pages)) + TokensIn(Tail(pages))

Documents ==
    {d \in UNION {[1..p -> PageTexts] : p \in 0..MaxPages} : TokensIn(d) <= MaxDocTokens}
    \cup {ScenarioPages}

(* the custom_ranges arguments followed; <<>> asks for heading mode *)
RangeArgs ==
    { <<>>,
      ("Ch A" :> <<0, 1>>) @@ ("Ch B" :> <<5, 2>>),
      ("Ch A" :> <<0, 0>>),
      ("Chapter 1" :> <<1, 1>>),
      ("Ch A" :> <<-1, 0>>) @@ ("Ch B" :> <<0, 0>>),
      ("Ch A" :> <<0, 2>>) }

InitSegment ==
    /\ books = <<>>
    /\ chapters = <<>>
    /\ summaries = EmptyBag
    /\ concepts = <<>>
    /\ progress = <<>>
    /\ worksheets = EmptyBag
    /\ last = NoCall
    /\ result = NoResult
    /\ segmenter \in {PDFExtractor(d) : d \in Documents}
    /\ sessions = OneCaller

(* pdf_extractor.py 36-55 *)
ExtractText ==
    /\ segmenter.pages_text = <<>>
    /\ segmenter.calls = 0
    /\ segmenter' = extract_text(segmenter)
    /\ last' = Call("extract_text", None, None, None, FALSE, "ok", {}, 0)
    /\ result' = segmenter'.pages_text
    /\ UNCHANGED <<store, sessions>>

(* pdf_extractor.py 57-104 *)
DetectChapters(custom_ranges) ==
    /\ segmenter.calls < MaxCalls
    /\ segmenter' = [detect_chapters(segmenter, custom_ranges) EXCEPT
                       !.calls = segmenter.calls + 1,
                       !.custom_ranges = custom_ranges]
    /\ last' = Call("detect_chapters", None, None, None, FALSE, "ok", {}, 0)
    /\ result' = segmenter'.chapters
    /\ UNCHANGED <<store, sessions>>

NextSegment ==
    \/ ExtractText
    \/ \E custom_ranges \in RangeArgs : DetectChapters(custom_ranges)

SpecSegment == InitSegment /\ [][NextSegment]_vars
----------------------------------------------------------------------------
(* What the claims speak of, read off the tables *)

BookOf(chapter_id) == chapters[chapter_id].book_id

HasProgress(table, book_id) == \E i \in 1..Len(table) : table[i].book_id = book_id

(* the row getUserProgress returns for the book *)
ProgressRow(table, book_id) ==
    table[Min({i \in 1..Len(table) : table[i].book_id = book_id})]

(* the book's completed-set field does not parse *)
Unparseable(table, book_id) ==
    /\ HasProgress(table, book_id)
    /\ ProgressRow(table, book_id).completed_chapters.kind # "list"

(* the book's completed list as stored; empty when there is no row or the  *)
(* field does not parse                                                    *)
CompletedList(table, book_id) ==
    IF HasProgress(table, book_id) /\ ~Unparseable(table, book_id)
    THEN ProgressRow(table, book_id).completed_chapters.items
    ELSE <<>>

IsCompleted(table, chapter_id) ==
    chapter_id \in Range(CompletedList(table, BookOf(chapter_id)))

HasSummary(bag, chapter_id) == CopiesIn(chapter_id, bag) > 0

ConceptsOf(table, chapter_id) ==
    {k \in 1..Len(table) : table[k].chapter_id = chapter_id}

ExistingChapter(chapter_id) == chapter_id \in 1..Len(chapters)
ExistingConcept(concept_id) == concept_id \in 1..Len(concepts)

GeneratorFailed(call, method) == Asked(method, "error") \in call.gen

(* the tables as the call that returns in this step found them: as they    *)
(* are if the call is made now, else as they were when it was made         *)
Found == IF sessions[1].pc = "idle" THEN Tables ELSE sessions[1].before

----------------------------------------------------------------------------
(* C1: after resetChapterProgress(c) the chapter c is not a member of the  *)
(* persisted completed set of its book.                                    *)
C1_ResetRemovesCompleted ==
    (last.op = "reset_chapter_progress" /\ ExistingChapter(last.chapter))
        => ~IsCompleted(progress, last.chapter)

(* C2: after every successful startSession(c), the first one for the book  *)
(* included, c is a member of its book's completed set.                    *)
C2_SessionMarksCompleted ==
    (last.op = "start_learning_session" /\ last.outcome = "ok")
        => IsCompleted(progress, last.chapter)

(* C3: the second of two consecutive updateProgress(b, c) calls leaves c   *)
(* exactly once in b's completed set, and every further consecutive        *)
(* updateProgress(b, c) leaves the completed set unchanged.                *)
C3_UpdateIdempotent ==
    [][(/\ last'.op = "update_user_progress"
        /\ last'.chapter # None
        /\ last'.again >= 1)
       => /\ last'.outcome = "ok"
          /\ Count(last'.chapter, CompletedList(progress', last'.book)) = 1
          /\ last'.again >= 2 =>
                CompletedList(progress', last'.book)
                   = CompletedList(Found.progress, last'.book)
      ]_vars

(* C3 witness: a second consecutive updateProgress(b, c) has returned, for *)
(* a c that is no chapter of b, and b's completed list is exactly <<c>>.   *)
C3_Witness ==
    /\ last.op = "update_user_progress"
    /\ last.again >= 1
    /\ last.chapter # None
    /\ last.outcome = "ok"
    /\ ~(ExistingChapter(last.chapter) /\ BookOf(last.chapter) = last.book)
    /\ CompletedList(progress, last.book) = <<last.chapter>>

(* C4: updateProgress(b, c) on a record whose completed-set field does not *)
(* parse completes without raising, records c as last visited and leaves   *)
(* the completed set {c}.                                                  *)
C4_UpdateToleratesMalformed ==
    [][(/\ last'.op = "update_user_progress"
        /\ last'.chapter # None
        /\ Unparseable(Found.progress, last'.book))
       => /\ last'.outcome = "ok"
          /\ HasProgress(progress', last'.book)
          /\ ProgressRow(progress', last'.book).last_chapter_id = last'.chapter
          /\ ProgressRow(progress', last'.book).completed_chapters
                = json_dumps(<<last'.chapter>>)
      ]_vars

(* C5: startSession(c) on an existing chapter asks the generator exactly   *)
(* when c has no Summary at the start of the call; a Summary, once stored, *)
(* stays; and a startSession(c) made while c has a Summary asks nothing    *)
(* and creates no Summary and no Concept.                                  *)
C5_SummaryGatesGeneration ==
    [][/\ \A c \in 1..Len(chapters) :
             HasSummary(summaries, c) => HasSummary(summaries', c)
       /\ (last'.op = "start_learning_session" /\ ExistingChapter(last'.chapter))
          => /\ (last'.gen # {}) <=> ~HasSummary(Found.summaries, last'.chapter)
             /\ HasSummary(Found.summaries, last'.chapter)
                  => (concepts' = Found.concepts /\ summaries' = Found.summaries)
      ]_vars

(* C5 witness: a re-visit of a chapter that has a Summary and no Concept   *)
(* has returned without asking the generator.                              *)
C5_Witness ==
    /\ last.op = "start_learning_session"
    /\ last.outcome = "ok"
    /\ last.gen = {}
    /\ HasSummary(summaries, last.chapter)
    /\ ConceptsOf(concepts, last.chapter) = {}

(* C6 as claimed: a generator failure during startSession, while producing *)
(* the summary text or while extracting concepts, is absorbed: the call    *)
(* returns a view and the visit is recorded.                               *)
C6_GeneratorFailureAbsorbed ==
    (/\ last.op = "start_learning_session"
     /\ \/ GeneratorFailed(last, "summarize_chapter")
        \/ GeneratorFailed(last, "extract_concepts"))
    => /\ last.outcome = "ok"
       /\ HasProgress(progress, BookOf(last.chapter))
       /\ ProgressRow(progress, BookOf(last.chapter)).last_chapter_id = last.chapter

(* C6 amended: a generator failure while extracting concepts is absorbed   *)
(* (the Summary is stored, no Concept is created, the visit is recorded    *)
(* and the view returned); a generator failure while producing the summary *)
(* text propagates out of startSession, which then changes nothing in the  *)
(* store.                                                                  *)
C6_ExtractionFailureAbsorbed ==
    [][(last'.op = "start_learning_session")
       => /\ GeneratorFailed(last', "extract_concepts")
             => /\ last'.outcome = "ok"
                /\ HasSummary(summaries', last'.chapter)
                /\ concepts' = Found.concepts
                /\ HasProgress(progress', BookOf(last'.chapter))
                /\ ProgressRow(progress', BookOf(last'.chapter)).last_chapter_id
                      = last'.chapter
          /\ GeneratorFailed(last', "summarize_chapter")
             => /\ last'.outcome = "GenerationError"
                /\ Tables' = Found
      ]_vars

(* C6 witness: a startSession whose concept extraction failed has returned *)
(* its view, with the Summary stored and the visit recorded.               *)
C6_Witness ==
    /\ last.op = "start_learning_session"
    /\ GeneratorFailed(last, "extract_concepts")
    /\ last.outcome = "ok"
    /\ HasSummary(summaries, last.chapter)
    /\ ProgressRow(progress, BookOf(last.chapter)).last_chapter_id = last.chapter

(* C7: processConceptUnderstanding(k, understood=false) on an existing     *)
(* concept leaves the stored flag of k and of every other concept as it    *)
(* was, whatever its value, and persists nothing: every table is as the    *)
(* call found it.                                                          *)
C7_NotUnderstoodKeepsFlags ==
    [][(/\ last'.op = "process_concept_understanding"
        /\ ~last'.understood
        /\ ExistingConcept(last'.concept))
       => /\ \A k \in 1..Len(Found.concepts) :
                concepts'[k].is_understood = Found.concepts[k].is_understood
          /\ Tables' = Found
      ]_vars

(* C7 witness: processConceptUnderstanding(k, understood=false) has been   *)
(* called on a concept whose flag is true while another concept's flag is  *)
(* false, and both flags are as they were.                                 *)
C7_Witness ==
    /\ last.op = "process_concept_understanding"
    /\ ~last.understood
    /\ ExistingConcept(last.concept)
    /\ concepts[last.concept].is_understood
    /\ \E k \in 1..Len(concepts) : ~concepts[k].is_understood

(* C8: processConceptUnderstanding(k, understood=true) on an existing      *)
(* concept sets k's stored flag and leaves every other concept unchanged.  *)
C8_UnderstoodSetsOnlyThatFlag ==
    [][(/\ last'.op = "process_concept_understanding"
        /\ last'.understood
        /\ ExistingConcept(last'.concept))
       => concepts' = [Found.concepts EXCEPT ![last'.concept].is_understood = TRUE]
      ]_vars

(* C9: resetChapterProgress(c) adds and removes no concept, leaves every   *)
(* concept of c with understood = false and the flag of every concept of   *)
(* any other chapter unchanged.                                            *)
C9_ResetClearsOnlyOwnConcepts ==
    [][(last'.op = "reset_chapter_progress")
       => /\ Len(concepts') = Len(Found.concepts)
          /\ \A k \in 1..Len(Found.concepts) :
               /\ concepts'[k].chapter_id = Found.concepts[k].chapter_id
               /\ Found.concepts[k].chapter_id = last'.chapter
                    => ~concepts'[k].is_understood
               /\ Found.concepts[k].chapter_id # last'.chapter
                    => concepts'[k].is_understood = Found.concepts[k].is_understood
      ]_vars

(* C9 witness: a reset of a chapter that has a concept has returned while  *)
(* a concept of another chapter is still understood.                       *)
C9_Witness ==
    /\ last.op = "reset_chapter_progress"
    /\ ConceptsOf(concepts, last.chapter) # {}
    /\ \E k \in 1..Len(concepts) :
          concepts[k].chapter_id # last.chapter /\ concepts[k].is_understood

(* C10: resetChapterProgress(c) on a chapter whose book's completed-set    *)
(* field does not parse returns its message, leaves the progress table as  *)
(* it was and still resets the flags of c's concepts (and only those).     *)
C10_ResetToleratesMalformed ==
    [][(/\ last'.op = "reset_chapter_progress"
        /\ ExistingChapter(last'.chapter)
        /\ Unparseable(Found.progress, BookOf(last'.chapter)))
       => /\ last'.outcome = "ok"
          /\ progress' = Found.progress
          /\ Len(concepts') = Len(Found.concepts)
          /\ \A k \in 1..Len(Found.concepts) :
               concepts'[k].is_understood =
                  (/\ Found.concepts[k].chapter_id # last'.chapter
                   /\ Found.concepts[k].is_understood)
      ]_vars

(* C10 witness: a reset has returned for a chapter whose book's            *)
(* completed-set field did not parse when the call was made, and a concept *)
(* of the chapter that was understood then is not understood now.          *)
C10_Witness ==
    /\ last.op = "reset_chapter_progress"
    /\ last.outcome = "ok"
    /\ ExistingChapter(last.chapter)
    /\ Unparseable(progress, BookOf(last.chapter))
    /\ sessions[1].before # <<>>
    /\ Unparseable(sessions[1].before.progress, BookOf(last.chapter))
    /\ \E k \in ConceptsOf(concepts, last.chapter) :
          /\ sessions[1].before.concepts[k].is_understood
          /\ ~concepts[k].is_understood

----------------------------------------------------------------------------
(* C11: startSession on a chapter id that does not exist and               *)
(* processConceptUnderstanding on a concept id that does not exist both    *)
(* fail with the not-found error (ValueError), ask the generator nothing   *)
(* and leave the store unchanged.                                          *)
C11_MissingIdIsNotFound ==
    [][(\/ /\ last'.op = "start_learning_session"
           /\ ~ExistingChapter(last'.chapter)
        \/ /\ last'.op = "process_concept_understanding"
           /\ ~ExistingConcept(last'.concept))
       => /\ last'.outcome = "ValueError"
          /\ last'.gen = {}
          /\ Tables' = Found
      ]_vars

(* C12: every successful startSession(c) ends with a progress record for   *)
(* c's book whose last_chapter_id is c, and returns exactly the concepts of *)
(* c, each with the understood flag stored for it.                         *)
C12_SessionRecordsVisit ==
    [][(last'.op = "start_learning_session" /\ last'.outcome = "ok")
       => /\ HasProgress(progress', BookOf(last'.chapter))
          /\ ProgressRow(progress', BookOf(last'.chapter)).last_chapter_id
                = last'.chapter
          /\ DOMAIN result' = ConceptsOf(concepts', last'.chapter)
          /\ \A k \in DOMAIN result' : result'[k] = concepts'[k].is_understood
      ]_vars

(* C12 witness: a startSession has returned a view that lists a concept as *)
(* understood, after another chapter of the same book had been the last    *)
(* visited one.                                                            *)
C12_Witness ==
    /\ last.op = "start_learning_session"
    /\ last.outcome = "ok"
    /\ \E k \in DOMAIN result : result[k]
    /\ Len(CompletedList(progress, BookOf(last.chapter))) = 2
    /\ ProgressRow(progress, BookOf(last.chapter)).last_chapter_id = last.chapter

(* C13: updateProgress(b, c) made while b has no progress record appends   *)
(* exactly one record, for b, with last_chapter_id = c and an empty        *)
(* completed set, and changes no other record.                             *)
C13_UpdateCreatesRecord ==
    [][(last'.op = "update_user_progress" /\ ~HasProgress(Found.progress, last'.book))
       => /\ last'.outcome = "ok"
          /\ progress' = Append(Found.progress,
                                [book_id |-> last'.book,
                                 last_chapter_id |-> last'.chapter,
                                 completed_chapters |-> json_dumps(<<>>)])
      ]_vars

(* C13 witness: updateProgress(b, c) with a chapter c, for a b that is no  *)
(* stored book, has just created b's record, whose completed set is empty. *)
C13_Witness ==
    /\ last.op = "update_user_progress"
    /\ last.chapter # None
    /\ last.again = 0
    /\ last.book \notin 1..Len(books)
    /\ HasProgress(progress, last.book)
    /\ ProgressRow(progress, last.book).last_chapter_id = last.chapter
    /\ ProgressRow(progress, last.book).completed_chapters = json_dumps(<<>>)

(* C14: in every reachable state each book's completed set holds no id     *)
(* twice and every member is an existing chapter of that same book.        *)
C14_CompletedSetWellFormed ==
    \A i \in 1..Len(progress) :
        LET list == progress[i].completed_chapters.items IN
        \A c \in Range(list) :
            /\ Count(c, list) = 1
            /\ ExistingChapter(c)
            /\ BookOf(c) = progress[i].book_id

(* C14 witness: two books each have a completed chapter of their own, the  *)
(* second one re-visited by a session.                                     *)
C14_Witness ==
    /\ last.op = "start_learning_session"
    /\ last.outcome = "ok"
    /\ Len(progress) = 2
    /\ \A i \in 1..Len(progress) : Len(progress[i].completed_chapters.items) = 1

(* C15: no chapter ever has more than one Summary row, also after a second *)
(* createSummary for the same chapter.                                     *)
C15_OneSummaryPerChapter ==
    \A c \in BagToSet(summaries) : CopiesIn(c, summaries) <= 1

(* C16: no chapter ever has more than one Worksheet row, also after a      *)
(* worksheet is generated for a chapter that already has one.              *)
C16_OneWorksheetPerChapter ==
    \A c \in BagToSet(worksheets) : CopiesIn(c, worksheets) <= 1

(* C17: createConcept or createSummary under a chapter id that does not    *)
(* exist, and createChapter under a book id that does not exist, fail with *)
(* IntegrityError and store nothing.                                       *)
C17_OrphanWriteRejected ==
    [][(\/ /\ last'.op \in {"create_concept", "create_summary"}
           /\ ~ExistingChapter(last'.chapter)
        \/ /\ last'.op = "create_chapter"
           /\ last'.book \notin 1..Len(Found.books))
       => /\ last'.outcome = "IntegrityError"
          /\ Tables' = Found
      ]_vars

(* C18: getChapterProgress(c) returns total = the number of concepts of c, *)
(* understood = the number of those whose flag is set, with                *)
(* 0 <= understood <= total, and a percentage that is understood/total*100 *)
(* when total > 0 and exactly 0 when total = 0 (no division by zero).      *)
C18_ChapterProgressCounts ==
    [][(last'.op = "get_chapter_progress")
       => LET mine == ConceptsOf(Found.concepts, last'.chapter)
              t == Cardinality(mine)
              u == Cardinality({k \in mine : Found.concepts[k].is_understood})
              pct == result'.progress_percentage
          IN /\ last'.outcome = "ok"
             /\ result'.total_concepts = t
             /\ result'.understood_concepts = u
             /\ 0 <= u /\ u <= t
             /\ pct.den # 0
             /\ (t > 0) => (pct.num * t = u * 100 * pct.den)
             /\ (t = 0) => (pct.num = 0)
      ]_vars

(* C18 witness: getChapterProgress has returned for a chapter with two     *)
(* concepts of which one is understood.                                    *)
C18_Witness ==
    /\ last.op = "get_chapter_progress"
    /\ result.total_concepts = 2
    /\ result.understood_concepts = 1
    /\ result.progress_percentage = [num |-> 50, den |-> 1]

(* C19: getBookProgress(b) reports an overall percentage equal to the      *)
(* understood concepts of all chapters of b over all concepts of those     *)
(* chapters, times 100, or 0 when b's chapters have no concept; and for    *)
(* each chapter of b, is_completed exactly when the chapter is a member of *)
(* b's stored completed set, whatever the chapter's own percentage.        *)
C19_BookProgressAggregates ==
    [][(last'.op = "get_book_progress")
       => LET chs == {c \in 1..Len(chapters) : chapters[c].book_id = last'.book}
              mine == {k \in 1..Len(Found.concepts) :
                          Found.concepts[k].chapter_id \in chs}
              t == Cardinality(mine)
              u == Cardinality({k \in mine : Found.concepts[k].is_understood})
              pct == result'.overall_progress
          IN /\ pct.den # 0
             /\ (t > 0) => (pct.num * t = u * 100 * pct.den)
             /\ (t = 0) => (pct.num = 0)
             /\ DOMAIN result'.chapter_progress = chs
             /\ \A c \in chs :
                   result'.chapter_progress[c].is_completed
                      = (c \in Range(CompletedList(Found.progress, last'.book)))
      ]_vars

(* C19 witness: getBookProgress has reported a chapter as completed while  *)
(* that chapter has a concept and none of its concepts is understood.      *)
C19_Witness ==
    /\ last.op = "get_book_progress"
    /\ \E c \in DOMAIN result.chapter_progress :
          /\ result.chapter_progress[c].is_completed
          /\ result.chapter_progress[c].progress_percentage.num = 0
          /\ ConceptsOf(concepts, c) # {}

ReadOps ==
    {"get_chapter_progress", "get_book_progress", "get_chapter",
     "get_concepts_by_chapter", "get_chapters_by_book", "get_user_progress"}

(* C20: getChapterProgress, getBookProgress, getChapter,                   *)
(* getConceptsByChapter, getChaptersByBook and getUserProgress leave every *)
(* stored record unchanged, in whatever state they are called.             *)
C20_ReadsArePure ==
    [][(last'.op \in ReadOps) => Tables' = Found]_vars

(* C20 witness: getBookProgress has returned for a book that has a chapter *)
(* and no progress record.                                                 *)
C20_Witness ==
    /\ last.op = "get_book_progress"
    /\ result.total_chapters > 0
    /\ ~HasProgress(progress, last.book)

(* C21: in every reachable state no book has more than one UserProgress    *)
(* record.                                                                 *)
C21_OneProgressRecordPerBook ==
    \A i, j \in 1..Len(progress) :
        progress[i].book_id = progress[j].book_id => i = j

(* C21 witness: a repeated updateProgress has returned while two book ids, *)
(* one of them of no stored book, have a progress record each.             *)
C21_Witness ==
    /\ last.op = "update_user_progress"
    /\ last.again >= 1
    /\ Len(progress) = 2
    /\ progress[1].book_id # progress[2].book_id
    /\ \E i \in 1..2 : progress[i].book_id \notin 1..Len(books)

(* C28: a concept's stored flag goes from true to false only in a step of  *)
(* a resetChapterProgress call on the concept's own chapter, so the number *)
(* of understood concepts of a chapter decreases in no other call.         *)
C28_FlagFallsOnlyOnReset ==
    [][\A k \in 1..Len(concepts) :
          (concepts[k].is_understood /\ ~concepts'[k].is_understood)
             => \E i \in Procs :
                   /\ sessions[i].op = "reset_chapter_progress"
                   /\ sessions[i].chapter = concepts[k].chapter_id
                   /\ sessions'[i] # sessions[i]
      ]_vars

(* C28 witness: processConceptUnderstanding(k, understood=false) has been  *)
(* called on a concept whose flag is true, and the flag is still true.     *)
C28_Witness ==
    /\ last.op = "process_concept_understanding"
    /\ ~last.understood
    /\ ExistingConcept(last.concept)
    /\ concepts[last.concept].is_understood

----------------------------------------------------------------------------
(* What the claims about the segmenter speak of *)

(* the text the heading pattern is matched against *)
FullText == full_text_of(segmenter.pdf)

(* the last call was detect_chapters in heading mode / in range mode *)
HeadingCall == segmenter.calls > 0 /\ segmenter.custom_ranges = <<>>
RangeCall == segmenter.calls > 0 /\ segmenter.custom_ranges # <<>>

(* the only call so far was made on a segmenter that held no chapters *)
FirstCall == segmenter.calls = 1

(* the pieces of page text that no marker rewriting can touch *)
ContentTokens ==
    (UNION {Range(segmenter.pdf[i]) : i \in 1..Len(segmenter.pdf)})
        \ {"]", "[PAGE_", NL}

RECURSIVE CountIn(_, _, _)
(* occurrences of piece x in the values of mapping d at the keys in keys *)
CountIn(x, d, keys) ==
    IF keys = {} THEN 0
    ELSE LET k == CHOOSE k \in keys : TRUE
         IN Count(x, d[k]) + CountIn(x, d, keys \ {k})

(* occurrences of piece x in all the pages *)
CountInPages(x) == Count(x, Join(segmenter.pdf, <<>>))

(* C22: after a heading-mode call with at least one match on a fresh       *)
(* segmenter, every piece of page text occurs in the returned chapters     *)
(* exactly as often as in the pages: nothing lost, nothing duplicated.     *)
C22_HeadingModePartitions ==
    (HeadingCall /\ FirstCall /\ finditer(FullText) # {})
        => \A x \in ContentTokens : CountIn(x, result, DOMAIN result) = CountInPages(x)

(* C23: after a heading-mode call on pages in which the pattern matches    *)
(* nowhere, the mapping returned has the single label "Chapter 1" and its  *)
(* text is all the pages joined by newlines.                               *)
C23_NoMatchSingleChapter ==
    (HeadingCall /\ finditer(FullText) = {})
        => /\ DOMAIN result = {"Chapter 1"}
           /\ result["Chapter 1"] = Join(segmenter.pdf, <<NL>>)
           /\ last.outcome = "ok"

(* C23 witness: a heading-mode call has returned for two pages of text     *)
(* without a heading.                                                      *)
C23_Witness ==
    /\ HeadingCall
    /\ finditer(FullText) = {}
    /\ Len(segmenter.pdf) = 2
    /\ segmenter.pdf[1] # <<>>
    /\ segmenter.pdf[2] # <<>>
    /\ DOMAIN result = {"Chapter 1"}

(* the matches that capture the identifier of the label *)
MatchesOf(label) == {p \in finditer(FullText) : chapter_name(group1(FullText[p])) = label}

(* the span of the match at p: up to the next match or the end of text *)
SpanOf(p) ==
    LET later == {q \in finditer(FullText) : q > p}
    IN SubSeq(FullText, p, IF later = {} THEN Len(FullText) ELSE Min(later) - 1)

Max(S) == CHOOSE x \in S : \A y \in S : x >= y

(* C24: after a heading-mode call with matches, every label               *)
(* "Chapter <captured id>" is in the mapping returned, and its text is the *)
(* span (markers rewritten) of the last match capturing that identifier,   *)
(* from that match's start up to the next match's start or the end.        *)
C24_SpansAndLastWins ==
    (HeadingCall /\ finditer(FullText) # {})
        => \A p \in finditer(FullText) :
              LET label == chapter_name(group1(FullText[p]))
              IN /\ label \in DOMAIN result
                 /\ result[label] = rewrite_markers(SpanOf(Max(MatchesOf(label))))

(* C24 witness: a heading-mode call has returned for pages in which two    *)
(* matches capture the same identifier and a third match another one.      *)
C24_Witness ==
    /\ HeadingCall
    /\ FirstCall
    /\ Cardinality(MatchesOf("Chapter 1")) = 2
    /\ Cardinality(MatchesOf("Chapter 2")) = 1
    /\ DOMAIN result = {"Chapter 1", "Chapter 2"}

(* the labels of the ranges with 0 <= start <= end < page_count *)
ValidLabels(ranges, page_count) ==
    {name \in DOMAIN ranges :
        /\ 0 <= ranges[name][1]
        /\ ranges[name][1] <= ranges[name][2]
        /\ ranges[name][2] < page_count}

(* C25: after a range-mode call on a fresh segmenter the mapping returned  *)
(* has exactly the labels whose range satisfies                            *)
(* 0 <= start <= end < page_count, each with the pages start..end joined   *)
(* by newlines, and the call has not raised.                               *)
C25_RangesKeepValidEntries ==
    (RangeCall /\ FirstCall)
        => /\ DOMAIN result = ValidLabels(segmenter.custom_ranges, Len(segmenter.pdf))
           /\ \A name \in DOMAIN result :
                 result[name] =
                    Join(SubSeq(segmenter.pdf, segmenter.custom_ranges[name][1] + 1,
                                segmenter.custom_ranges[name][2] + 1), <<NL>>)
           /\ last.outcome = "ok"

(* C25 witness: the ranges {"Ch A": (0,1), "Ch B": (5,2)} over the three   *)
(* pages of the scenario have yielded "Ch A" alone.                        *)
C25_Witness ==
    /\ RangeCall
    /\ FirstCall
    /\ segmenter.pdf = ScenarioPages
    /\ segmenter.custom_ranges = ("Ch A" :> <<0, 1>>) @@ ("Ch B" :> <<5, 2>>)
    /\ DOMAIN result = {"Ch A"}

(* C26: the mapping a call returns is the one a segmenter just constructed *)
(* for the same pages returns for the same arguments: nothing of an        *)
(* earlier call is carried over.                                           *)
C26_CallsAreIndependent ==
    segmenter.calls > 0
        => result = detect_chapters(PDFExtractor(segmenter.pdf),
                                    segmenter.custom_ranges).chapters

(* the pieces of the third page of the scenario and of its marker *)
ThirdPageTokens == Range(ScenarioPages[3]) \cup {"2"}

(* C27: for the three pages of the scenario a heading-mode call returns    *)
(* "Chapter 1" and "Chapter 2" only, "Chapter 2" being the third page and  *)
(* "Chapter 1" holding nothing of the third page, marker included.         *)
C27_ScenarioSpans ==
    (HeadingCall /\ FirstCall /\ segmenter.pdf = ScenarioPages)
        => /\ DOMAIN result = {"Chapter 1", "Chapter 2"}
           /\ result["Chapter 2"] = ScenarioPages[3]
           /\ Range(result["Chapter 1"]) \cap ThirdPageTokens = {}

(* pdf text with every marker already in its readable form *)
ReadableText ==
    Join([i \in 1..Len(segmenter.pdf) |->
             <<NL, "Page ", ToString(i - 1), ":", NL>> \o segmenter.pdf[i]], <<NL>>)

(* the span of the match at p in the readable text *)
ReadableSpanOf(p) ==
    LET heads == {q \in 1..Len(ReadableText) : ReadableText[q] \in HeadingTokens}
        later == {q \in heads : q > p}
    IN SubSeq(ReadableText, p, IF later = {} THEN Len(ReadableText) ELSE Min(later) - 1)

(* C29: after a heading-mode call with matches on a fresh segmenter, each  *)
(* chapter text is its span with the markers in readable form and every    *)
(* piece of page text as it was in the page.                               *)
C29_OnlyMarkersRewritten ==
    (HeadingCall /\ FirstCall /\ finditer(FullText) # {})
        => \A label \in DOMAIN result :
              \E p \in {q \in 1..Len(ReadableText) : ReadableText[q] \in HeadingTokens} :
                 result[label] = ReadableSpanOf(p)

(* the most concepts one start_learning_session call extracts *)
MaxExtracted == Max({Len(l) : l \in ItemLists})

(* C30: however the store operations of two startSession calls for one     *)
(* chapter interleave, the chapter has at most one Summary and no more     *)
(* concepts than one call extracts.                                        *)
C30_InterleavedSessionsCreateOnce ==
    \A c \in 1..Len(chapters) :
        /\ CopiesIn(c, summaries) <= 1
        /\ Cardinality(ConceptsOf(concepts, c)) <= MaxExtracted

====
